---- MODULE Spec2Model ----
(***************************************************************************)
(* Model of the ingestion core of thesis-assistant:                        *)
(*   - the Dispatcher, class Ingest (src/unnamed/part_001)                 *)
(*   - the Extraction Worker (src/assets/workers/ingestWorker.js)          *)
(* and of the two message channels between them.                           *)
(*                                                                         *)
(* Every handler takes its event data either from the channel it is wired  *)
(* to, or from a small set of possible event data (the handler's input):   *)
(* worker.onmessage also runs on the envelopes handleWorkerMessage         *)
(* switches on, and the Worker's listener also runs on the {operation,     *)
(* url, file} objects it destructures.                                     *)
(* Date.now()/new Date() timestamps are not carried in the messages.       *)
(***************************************************************************)
EXTENDS Integers, Sequences, FiniteSets, TLC

VARIABLES
  worker,         \* this.worker: Null or "live" (the execution unit)
  isWorkerReady,  \* this.isWorkerReady
  callbacks,      \* this.callbacks: one slot per channel, a function or Null
  toWorker,       \* messages posted to the unit, not yet received by it
  toHost,         \* messages posted by the unit, not yet handled by onmessage
  tasks,          \* Worker operations suspended at an await
  pdfReads,       \* ingestPDF calls suspended at await file.arrayBuffer()
  faultEvents,    \* error events of the unit not yet dispatched to onerror
  lastOp          \* the step just taken: its name, argument, outcome and
                  \* the callback invocations it made

vars == <<worker, isWorkerReady, callbacks, toWorker, toHost, tasks,
          pdfReads, faultEvents, lastOp>>

----------------------------------------------------------------------------
(* Bounds *)

MaxQueue  == 1    \* messages in flight per channel
MaxTasks  == 1    \* Worker operations suspended at an await
MaxReads  == 1    \* ingestPDF calls suspended at file.arrayBuffer()
MaxFaults == 1    \* fault events of the unit not yet dispatched to onerror

----------------------------------------------------------------------------
(* JavaScript values *)

Null      == "null"
Undefined == "undefined"

Functions == {"f1", "f2"}                 \* host callbacks
CallbackNames == {"onProgress", "onComplete", "onError"}

NoCallbacks == [n \in CallbackNames |-> Null]

\* Strings are sequences of characters.
S_http  == <<"h","t","t","p">>
S_https == <<"h","t","t","p","s">>

Alpha == {"a","b","c","d","e","f","g","h","i","j","k","l","m","n","o","p",
          "q","r","s","t","u","v","w","x","y","z"}
Digit == {"0","1","2","3","4","5","6","7","8","9"}

SpecialSchemes == {S_http, S_https, <<"f","t","p">>, <<"w","s">>,
                   <<"w","s","s">>, <<"f","i","l","e">>}

\* Position of the first ":" of s, 0 when there is none.
RECURSIVE ColonAt(_, _)
ColonAt(s, i) ==
  IF i > Len(s) THEN 0
  ELSE IF s[i] = ":" THEN i
  ELSE ColonAt(s, i + 1)

\* Number of leading "/" of s from position i.
RECURSIVE Slashes(_, _)
Slashes(s, i) ==
  IF i > Len(s) THEN 0
  ELSE IF s[i] = "/" THEN 1 + Slashes(s, i + 1)
  ELSE 0

\* new URL(url) with no base: TRUE when the parse succeeds, FALSE when it
\* throws.  A scheme (a letter, then letters, digits, "+", "-", ".") up to
\* the first ":" is required; a special scheme other than file needs a
\* non-empty host after its slashes.
URLParses(s) ==
  LET c == ColonAt(s, 1) IN
  /\ c > 1
  /\ s[1] \in Alpha
  /\ \A i \in 2..(c - 1) : s[i] \in Alpha \cup Digit \cup {"+", "-", "."}
  /\ LET scheme == SubSeq(s, 1, c - 1)
         k      == Slashes(s, c + 1)
     IN  (scheme \in SpecialSchemes /\ scheme # <<"f","i","l","e">>)
           => /\ c + k + 1 <= Len(s)
              /\ s[c + k + 1] \notin {"/", "?", "#", ":"}

----------------------------------------------------------------------------
(* Inputs *)

Str(s)  == [typ |-> "string", str |-> s]
NonStr(t) == [typ |-> t, str |-> <<>>]

U_http  == <<"h","t","t","p",":","/","/","a">>     \* "http://a"
U_empty == <<>>                                    \* ""
U_word  == <<"a">>                                 \* "a", no scheme
U_nohost == <<"h","t","t","p",":","/","/">>        \* "http://", no host

UrlArgs == {Str(U_http), Str(U_empty), Str(U_word), Str(U_nohost),
            NonStr("number"), NonStr("undefined")}

\* !url
Falsy(a) == a.typ \in {"undefined", "null"} \/ (a.typ = "string" /\ a.str = <<>>)

PDFMime  == "application/pdf"
PDFSig   == <<"%","P","D","F">>
B_pdf    == <<"%","P","D","F","-">>
B_text   == <<"h","i">>

\* A File has a name, a declared MIME type and bytes; size is their number.
\* lastModified is "time" for a number that is a time value of Date.
File(n, t, b) == [kind |-> "File", name |-> n, type |-> t, bytes |-> b,
                  size |-> Len(b), lastModified |-> "time"]
NotAFile(k)   == [kind |-> k, name |-> Undefined, type |-> Undefined,
                  bytes |-> <<>>, size |-> 0, lastModified |-> Undefined]

\* A Blob has a type and bytes, but neither name nor lastModified.
Blob(t, b) == [kind |-> "Blob", name |-> Undefined, type |-> t, bytes |-> b,
               size |-> Len(b), lastModified |-> Undefined]

F_pdf  == File("a.pdf", PDFMime, B_pdf)          \* a PDF
F_fake == File("b.pdf", PDFMime, B_text)         \* declared PDF, is not
F_txt  == File("d.txt", "text/plain", B_pdf)     \* PDF bytes, declared text

FileArgs == {F_pdf, F_txt, NotAFile("null"), NotAFile("object")}

----------------------------------------------------------------------------
(* Messages *)

\* Dispatcher -> unit.  The Worker destructures operation, url and file;
\* the Dispatcher writes type and payload.  A field that is absent from
\* the JavaScript object is Undefined here.
WMsg(type, payload, operation, url, file) ==
  [type |-> type, payload |-> payload, operation |-> operation,
   url |-> url, file |-> file]

NoUrl  == NonStr("undefined")
NoFile == NotAFile("undefined")

InitMsg        == WMsg("init", Undefined, Undefined, NoUrl, NoFile)
IngestUrlMsg(u) == WMsg("ingest_url", [url |-> u], Undefined, NoUrl, NoFile)
IngestPdfMsg(f) ==
  WMsg("ingest_pdf",
       [fileName |-> f.name, fileSize |-> f.size, fileData |-> f.bytes],
       Undefined, NoUrl, NoFile)

\* unit -> Dispatcher.  handleWorkerMessage destructures type and payload;
\* the Worker writes operation, success, error and data.  "re" is not part
\* of the JavaScript object: it records the type of the message (or the
\* event) that the unit was answering.
HMsg(type, payload, operation, success, error, data, re) ==
  [type |-> type, payload |-> payload, operation |-> operation,
   success |-> success, error |-> error, data |-> data,
   url |-> NoUrl, filename |-> Undefined, re |-> re]

Envelope(type, payload) ==
  HMsg(type, payload, Undefined, Undefined, Undefined, Undefined, "unit")

\* Event data that the inbound-message handler may be given.
HostInputs == { Envelope(t, p) : t \in {"worker_ready", "progress",
                                        "ingest_complete", "error", "other"},
                                p \in {"p1"} }
              \cup { Envelope(Undefined, Undefined) }

----------------------------------------------------------------------------
(* Dispatcher: class Ingest *)

ErrNotReady   == "Worker not ready. Please wait for initialization."
ErrInvalidUrl == "Invalid URL provided"
ErrUrlFormat  == "Invalid URL format"
ErrInvalidFile == "Invalid file provided"
ErrNotPdf     == "File must be a PDF"
ErrReadPdf    == "Failed to read PDF file"
ErrTypeError  == "TypeError"      \* this.worker.postMessage on null
\* the TypeError of ingestPDF's postMessage, caught and rethrown
ErrReadPdfTypeError == "Failed to read PDF file: TypeError"

Op(name, arg, result, invoked) ==
  [name |-> name, arg |-> arg, result |-> result, invoked |-> invoked]

\* The invocations triggerCallback makes: the callback of the channel with
\* the data, if the slot is populated.
triggerCallback(cbs, callbackName, data) ==
  IF cbs[callbackName] # Null
  THEN << [channel |-> callbackName, fn |-> cbs[callbackName], data |-> data] >>
  ELSE << >>

\* constructor + initializeWorker: new Worker(...) either returns a unit,
\* to which the init probe is posted, or throws.
Init ==
  /\ isWorkerReady = FALSE
  /\ callbacks = NoCallbacks
  /\ toHost = << >>
  /\ tasks = << >>
  /\ pdfReads = << >>
  /\ faultEvents = 0
  /\ \/ /\ worker = "live"
        /\ toWorker = << InitMsg >>
        /\ lastOp = [name |-> "constructor", arg |-> Undefined,
                     result |-> "created", invoked |-> << >>]
     \/ /\ worker = Null
        /\ toWorker = << >>
        /\ lastOp = [name |-> "constructor", arg |-> Undefined,
                     result |-> "construction_failed",
                     invoked |-> triggerCallback(NoCallbacks, "onError",
                                   [type |-> "worker_init_error",
                                    message |-> "Could not load web worker"])]

\* handleWorkerMessage reporting a message of unknown type through onError.
HandledInvocations_unknownAsError(cbs, data) ==
  CASE data.type = "worker_ready"    -> << >>
    [] data.type = "progress"        -> triggerCallback(cbs, "onProgress", data.payload)
    [] data.type = "ingest_complete" -> triggerCallback(cbs, "onComplete", data.payload)
    [] OTHER                         -> triggerCallback(cbs, "onError", data.payload)

\* The callback invocations of handleWorkerMessage(data).
HandledInvocations(cbs, data) ==
  CASE data.type = "worker_ready"    -> << >>
    [] data.type = "progress"        -> triggerCallback(cbs, "onProgress", data.payload)
    [] data.type = "ingest_complete" -> triggerCallback(cbs, "onComplete", data.payload)
    [] data.type = "error"           -> triggerCallback(cbs, "onError", data.payload)
    [] OTHER                         -> << >>

\* handleWorkerMessage setting the flag on every message.
HandledReady_anyMessage(ready, data) == TRUE

HandledReady(ready, data) ==
  IF data.type = "worker_ready" THEN TRUE ELSE ready

\* handleWorkerMessage(data)
handleWorkerMessage(data) ==
  /\ isWorkerReady' = HandledReady(isWorkerReady, data)
  /\ lastOp' = Op("handleWorkerMessage", data, "returned",
                  HandledInvocations(callbacks, data))
  /\ UNCHANGED <<worker, callbacks, toWorker, tasks, pdfReads, faultEvents>>

\* worker.onmessage: the next message of the unit is handled.
OnMessage ==
  /\ worker = "live"
  /\ toHost # << >>
  /\ toHost' = Tail(toHost)
  /\ handleWorkerMessage(Head(toHost))

\* worker.onmessage with event data d.
OnMessageData(d) ==
  /\ worker = "live"
  /\ UNCHANGED toHost
  /\ handleWorkerMessage(d)

\* worker.onerror: an error event of the unit is dispatched.
OnError ==
  /\ worker = "live"
  /\ faultEvents > 0
  /\ faultEvents' = faultEvents - 1
  /\ lastOp' = Op("onerror", Undefined, "returned",
                  triggerCallback(callbacks, "onError",
                    [type |-> "worker_error",
                     message |-> "Web worker initialization failed"]))
  /\ UNCHANGED <<worker, isWorkerReady, callbacks, toWorker, toHost, tasks,
                 pdfReads>>

\* setCallbacks filling only the slots that are empty.
NewCallbacks_onlyIfEmpty(cbs, arg) ==
  [n \in CallbackNames |->
     IF arg[n] # Undefined /\ cbs[n] = Null THEN arg[n] ELSE cbs[n]]

\* setCallbacks({onProgress, onComplete, onError})
NewCallbacks(cbs, arg) ==
  [n \in CallbackNames |-> IF arg[n] # Undefined THEN arg[n] ELSE cbs[n]]

setCallbacks(arg) ==
  /\ callbacks' = NewCallbacks(callbacks, arg)
  /\ lastOp' = Op("setCallbacks", arg, "returned", << >>)
  /\ UNCHANGED <<worker, isWorkerReady, toWorker, toHost, tasks, pdfReads,
                 faultEvents>>

\* getStatus reporting the onError slot for every channel.
Status_oneSlot(ready, cbs) ==
  [workerReady |-> ready,
   hasCallbacks |-> [n \in CallbackNames |-> cbs["onError"] # Null]]

\* getStatus()
Status(ready, cbs) ==
  [workerReady |-> ready,
   hasCallbacks |-> [n \in CallbackNames |-> cbs[n] # Null]]

getStatus ==
  /\ lastOp' = Op("getStatus", Undefined, Status(isWorkerReady, callbacks), << >>)
  /\ UNCHANGED <<worker, isWorkerReady, callbacks, toWorker, toHost, tasks,
                 pdfReads, faultEvents>>

\* ingestURL without its readiness check.
ingestURLResult_noReadyCheck(ready, w, a) ==
  IF Falsy(a) \/ a.typ # "string" THEN ErrInvalidUrl
  ELSE IF ~URLParses(a.str) THEN ErrUrlFormat
  ELSE IF w = Null THEN ErrTypeError
  ELSE "processing"

\* ingestURL without the new URL(url) validation.
ingestURLResult_noFormatCheck(ready, w, a) ==
  IF ~ready THEN ErrNotReady
  ELSE IF Falsy(a) \/ a.typ # "string" THEN ErrInvalidUrl
  ELSE IF w = Null THEN ErrTypeError
  ELSE "processing"

\* The outcome of ingestURL(a): the error it throws, or "processing".
ingestURLResult(ready, w, a) ==
  IF ~ready THEN ErrNotReady
  ELSE IF Falsy(a) \/ a.typ # "string" THEN ErrInvalidUrl
  ELSE IF ~URLParses(a.str) THEN ErrUrlFormat
  ELSE IF w = Null THEN ErrTypeError
  ELSE "processing"

\* ingestURL(url)
ingestURL(a) ==
  LET r == ingestURLResult(isWorkerReady, worker, a) IN
  /\ r = "processing" => Len(toWorker) < MaxQueue
  /\ toWorker' = IF r = "processing"
                 THEN Append(toWorker, IngestUrlMsg(a.str))
                 ELSE toWorker
  /\ lastOp' = Op("ingestURL", a, r, << >>)
  /\ UNCHANGED <<worker, isWorkerReady, callbacks, toHost, tasks, pdfReads,
                 faultEvents>>

\* ingestPDF without the check of the declared MIME type.
ingestPDFResult_noTypeCheck(ready, f) ==
  IF ~ready THEN ErrNotReady
  ELSE IF f.kind # "File" THEN ErrInvalidFile
  ELSE "reading"

\* The outcome of ingestPDF(f) up to its await: the error it throws, or
\* "reading" when it suspends at file.arrayBuffer().
ingestPDFResult(ready, f) ==
  IF ~ready THEN ErrNotReady
  ELSE IF f.kind # "File" THEN ErrInvalidFile
  ELSE IF f.type # PDFMime THEN ErrNotPdf
  ELSE "reading"

\* ingestPDF(file), up to the await
ingestPDF(f) ==
  LET r == ingestPDFResult(isWorkerReady, f) IN
  /\ r = "reading" => Len(pdfReads) < MaxReads
  /\ pdfReads' = IF r = "reading" THEN Append(pdfReads, f) ELSE pdfReads
  /\ lastOp' = Op("ingestPDF", f, r, << >>)
  /\ UNCHANGED <<worker, isWorkerReady, callbacks, toWorker, toHost, tasks,
                 faultEvents>>

\* ingestPDF after the await acknowledging whenever the read succeeded.
ingestPDFResumeResult_optimistic(w, readOk) ==
  IF ~readOk THEN ErrReadPdf
  ELSE "processing"

\* The outcome of ingestPDF after the await: the read rejected, or
\* postMessage threw on a null worker (both caught and rethrown), or the
\* message was posted.
ingestPDFResumeResult(w, readOk) ==
  IF ~readOk THEN ErrReadPdf
  ELSE IF w = Null THEN ErrReadPdfTypeError
  ELSE "processing"

\* ingestPDF(file), from the await on
ingestPDFResume(i, readOk) ==
  LET f == pdfReads[i]
      r == ingestPDFResumeResult(worker, readOk) IN
  /\ r = "processing" => Len(toWorker) < MaxQueue
  /\ pdfReads' = SubSeq(pdfReads, 1, i - 1) \o SubSeq(pdfReads, i + 1, Len(pdfReads))
  /\ toWorker' = IF r = "processing"
                 THEN Append(toWorker, IngestPdfMsg(f))
                 ELSE toWorker
  /\ lastOp' = Op("ingestPDF.resume", f, r, << >>)
  /\ UNCHANGED <<worker, isWorkerReady, callbacks, toHost, tasks, faultEvents>>

\* destroy() leaving the callback slots as they are.
destroy_keepsCallbacks ==
  /\ worker' = Null
  /\ toWorker' = << >>
  /\ toHost' = << >>
  /\ tasks' = << >>
  /\ faultEvents' = 0
  /\ isWorkerReady' = FALSE
  /\ lastOp' = Op("destroy", Undefined, "returned", << >>)
  /\ UNCHANGED <<pdfReads, callbacks>>

\* destroy(): worker.terminate() stops the unit; nothing it had received,
\* was running or had posted is delivered afterwards.
destroy ==
  /\ worker' = Null
  /\ toWorker' = << >>
  /\ toHost' = << >>
  /\ tasks' = << >>
  /\ faultEvents' = 0
  /\ isWorkerReady' = FALSE
  /\ callbacks' = NoCallbacks
  /\ lastOp' = Op("destroy", Undefined, "returned", << >>)
  /\ UNCHANGED pdfReads

----------------------------------------------------------------------------
(* Extraction Worker: ingestWorker.js *)

\* Event data that the Worker's message listener may be given.
Direct(operation, url, file) == WMsg(Undefined, Undefined, operation, url, file)

WorkerInputs ==
  { Direct("html", Str(U_http), NoFile), Direct("html", NoUrl, NoFile),
    Direct("pdf", NoUrl, F_pdf), Direct("pdf", NoUrl, F_fake),
    Direct("pdf", NoUrl, F_txt),
    Direct("txt", Str(U_http), NoFile) }

\* Responses of fetch: status and reason phrase; ok is status in 200-299.
Response(status, statusText) ==
  [settled |-> "fulfilled", status |-> status, statusText |-> statusText]

Responses == { Response(200, "OK"), Response(404, "Not Found") }

\* fetch rejected (network failure): there is no response.
FetchRejected == [settled |-> "rejected", status |-> 0, statusText |-> ""]

\* response.ok taking every status from 200 to 399 as a success.
ResponseOk_redirectsToo(resp) == resp.status >= 200 /\ resp.status <= 399

ResponseOk(resp) == resp.status >= 200 /\ resp.status <= 299

\* The operation field copied into the answer as it was given.
OperationOrUnknown_asGiven(operation) == operation

\* operation || 'unknown'
OperationOrUnknown(operation) ==
  IF operation \in {Undefined, Null, ""} THEN "unknown" ELSE operation

\* A step of the unit on arg (the event data, or the suspended operation
\* and what its await settled with): it returns nothing to the host and
\* calls none of its callbacks.
WorkerStep(name, arg) == Op(name, arg, "returned", << >>)

Settled(task, outcome) == [task |-> task, outcome |-> outcome]

WorkerStepNames == {"worker.message", "worker.settle", "worker.error",
                    "worker.unhandledrejection"}

Task(op, url, file, stage, re) ==
  [op |-> op, url |-> url, file |-> file, stage |-> stage, re |-> re]

\* What the message the unit is answering was: the envelope type the
\* Dispatcher wrote, or "direct" for event data without one.
ReOf(d) == IF d.type = Undefined THEN "direct" ELSE d.type

InvalidOperationMsg(d) ==
  HMsg(Undefined, Undefined, OperationOrUnknown(d.operation), FALSE,
       "Invalid operation or missing data", Undefined, ReOf(d))

HtmlFailureMsg(url, message, re) ==
  [HMsg(Undefined, Undefined, "html", FALSE,
        << "Failed to fetch/parse HTML: " >> \o message, Undefined, re)
     EXCEPT !.url = Str(url)]

\* Text is held run-length encoded: a sequence of runs of n >= 1 equal
\* characters c, no two neighbouring runs of the same character.  The
\* empty string is << >>.
Run(c, n) == [c |-> c, n |-> n]

\* Characters that \s matches.
Whitespace == {" ", "\n", "\t"}

\* text.length
RECURSIVE TextLength(_)
TextLength(t) ==
  IF t = << >> THEN 0 ELSE Head(t).n + TextLength(Tail(t))

\* text without its leading whitespace
RECURSIVE TrimStart(_)
TrimStart(t) ==
  IF t = << >> THEN << >>
  ELSE IF Head(t).c \in Whitespace THEN TrimStart(Tail(t))
  ELSE t

\* text without its trailing whitespace
RECURSIVE TrimEnd(_)
TrimEnd(t) ==
  IF t = << >> THEN << >>
  ELSE IF t[Len(t)].c \in Whitespace THEN TrimEnd(SubSeq(t, 1, Len(t) - 1))
  ELSE t

\* text.trim()
Trim(t) == TrimEnd(TrimStart(t))

\* text.replace(/\s+/g, ' '): every maximal stretch of whitespace becomes
\* one space.
RECURSIVE CollapseWhitespace(_)
CollapseWhitespace(t) ==
  IF t = << >> THEN << >>
  ELSE IF Head(t).c \in Whitespace
  THEN << Run(" ", 1) >> \o CollapseWhitespace(TrimStart(Tail(t)))
  ELSE << Head(t) >> \o CollapseWhitespace(Tail(t))

\* text.substring(0, k)
RECURSIVE Substring(_, _)
Substring(t, k) ==
  IF t = << >> \/ k <= 0 THEN << >>
  ELSE IF Head(t).n >= k THEN << Run(Head(t).c, k) >>
  ELSE << Head(t) >> \o Substring(Tail(t), k - Head(t).n)

\* array.slice(0, k)
Slice(seq, k) == SubSeq(seq, 1, IF Len(seq) < k THEN Len(seq) ELSE k)

BodyLimit    == 10000
LinkLimit    == 50
HeadingLimit == 20

\* The content selectors, in the order they are tried.
ContentSelectors ==
  << "main", "article", ".content", "#content", ".post-content",
     ".entry-content", "body" >>

\* A parsed document: its title and description (Undefined when there is
\* none), the textContent of the element each content selector finds
\* (for the selectors that find one), its a[href] elements and its
\* h1..h6 elements in document order.
Document(title, metaDescription, regions, anchors, headings) ==
  [title |-> title, metaDescription |-> metaDescription, regions |-> regions,
   anchors |-> anchors, headings |-> headings]

\* An a[href] element: its textContent and what its href property returns.
Anchor(text, href) == [text |-> text, href |-> href]

\* A heading element: its tag name in lower case and its textContent.
Heading(level, text) == [level |-> level, text |-> text]

\* document.querySelector('title')?.textContent || 'No title found'
TitleOf(doc) ==
  IF doc.title = Undefined \/ doc.title = "" THEN "No title found" ELSE doc.title

\* ...?.getAttribute('content') || ''
MetaDescriptionOf(doc) ==
  IF doc.metaDescription = Undefined THEN "" ELSE doc.metaDescription

\* The loop over contentSelectors: the text of the first selector that
\* finds an element (the empty string when none does), then the clean-up.
RECURSIVE FirstRegion(_, _)
FirstRegion(doc, k) ==
  IF k > Len(ContentSelectors) THEN << >>
  ELSE IF ContentSelectors[k] \in DOMAIN doc.regions
  THEN doc.regions[ContentSelectors[k]]
  ELSE FirstRegion(doc, k + 1)

BodyTextOf(doc) == Trim(CollapseWhitespace(FirstRegion(doc, 1)))

\* .map(link => ({text: link.textContent.trim(), href: link.href}))
\* .filter(link => link.text && link.href)
LinkRecord(a) == [text |-> Trim(a.text), href |-> a.href]
LinkKept(l) == l.text # << >> /\ l.href # << >>
LinkRecordsOf(doc) == [i \in DOMAIN doc.anchors |-> LinkRecord(doc.anchors[i])]
LinksOf(doc) == SelectSeq(LinkRecordsOf(doc), LinkKept)

\* .map(heading => ({level: ..., text: heading.textContent.trim()}))
\* .filter(heading => heading.text)
HeadingRecord(h) == [level |-> h.level, text |-> Trim(h.text)]
HeadingKept(h) == h.text # << >>
HeadingRecordsOf(doc) ==
  [i \in DOMAIN doc.headings |-> HeadingRecord(doc.headings[i])]
HeadingsOf(doc) == SelectSeq(HeadingRecordsOf(doc), HeadingKept)

\* The extract reporting the length of the text it transports.
Extract_lengthAfterCut(url, doc) ==
  [url |-> url,
   title |-> TitleOf(doc),
   metaDescription |-> MetaDescriptionOf(doc),
   bodyText |-> Substring(BodyTextOf(doc), BodyLimit),
   links |-> Slice(LinksOf(doc), LinkLimit),
   headings |-> Slice(HeadingsOf(doc), HeadingLimit),
   contentLength |-> TextLength(Substring(BodyTextOf(doc), BodyLimit))]

\* The extract cutting the lists before it filters them.
Extract_cutBeforeFilter(url, doc) ==
  [url |-> url,
   title |-> TitleOf(doc),
   metaDescription |-> MetaDescriptionOf(doc),
   bodyText |-> Substring(BodyTextOf(doc), BodyLimit),
   links |-> SelectSeq(Slice(LinkRecordsOf(doc), LinkLimit), LinkKept),
   headings |-> SelectSeq(Slice(HeadingRecordsOf(doc), HeadingLimit), HeadingKept),
   contentLength |-> TextLength(BodyTextOf(doc))]

\* The data of a success result.
Extract(url, doc) ==
  [url |-> url,
   title |-> TitleOf(doc),
   metaDescription |-> MetaDescriptionOf(doc),
   bodyText |-> Substring(BodyTextOf(doc), BodyLimit),
   links |-> Slice(LinksOf(doc), LinkLimit),
   headings |-> Slice(HeadingsOf(doc), HeadingLimit),
   contentLength |-> TextLength(BodyTextOf(doc))]

HtmlSuccessMsg(url, doc, re) ==
  HMsg(Undefined, Undefined, "html", TRUE, Undefined, Extract(url, doc), re)

\* What await response.text() and the parser give: the read rejected, or
\* the environment of the unit defines no DOMParser, or the parsed
\* document.
TextOutcome(settled, domParser, doc) ==
  [settled |-> settled, domParser |-> domParser, doc |-> doc]

NoDocument == Document(Undefined, Undefined, << >>, << >>, << >>)

TextRejected == TextOutcome("rejected", FALSE, NoDocument)
NoDOMParser  == TextOutcome("fulfilled", FALSE, NoDocument)
Parsed(doc)  == TextOutcome("fulfilled", TRUE, doc)

\* file?.name || 'unknown'
NameOrUnknown(file) ==
  IF file.name = Undefined THEN "unknown" ELSE file.name

PdfFailureMsg(file, message, re) ==
  [HMsg(Undefined, Undefined, "pdf", FALSE,
        << "Failed to parse PDF: ", message >>, Undefined, re)
     EXCEPT !.filename = NameOrUnknown(file)]

\* The placeholder content record.
SimulatedContent ==
  [text |-> "PDF content extraction would be implemented here using PDF.js library",
   pages |-> "Unknown", author |-> "Unknown", subject |-> "Unknown",
   creator |-> "Unknown"]

PdfSuccessMsg(file, re) ==
  HMsg(Undefined, Undefined, "pdf", TRUE, Undefined,
       [metadata |-> [name |-> file.name, size |-> file.size,
                      type |-> file.type, lastModified |-> file.lastModified],
        content |-> SimulatedContent],
       re)

\* new Date(file.lastModified).toISOString() throws a RangeError unless
\* lastModified is a time value.
ValidTimeValue(lastModified) == lastModified = "time"

\* What handlePdfParse throws before its await, or Null: the MIME type is
\* tested first, then the metadata record is built.
PdfSyncError(file) ==
  IF file.type # PDFMime THEN "File is not a PDF document"
  ELSE IF ~ValidTimeValue(file.lastModified) THEN "Invalid time value"
  ELSE Null

\* fileStart.startsWith('%PDF') on the first four bytes
HasPdfSignature(bytes) ==
  Len(bytes) >= Len(PDFSig) /\ SubSeq(bytes, 1, Len(PDFSig)) = PDFSig

\* The branch the message listener takes on event data d.
ListenerBranch(d) ==
  IF d.operation = "html" /\ ~Falsy(d.url) THEN "html"
  ELSE IF d.operation = "pdf" /\ d.file.kind \notin {"undefined", "null"} THEN "pdf"
  ELSE "invalid"

\* The message listener answering nothing to an unrecognised operation.
Listener_silentOnInvalid(d) ==
  LET b == ListenerBranch(d) IN
  IF b = "html"
  THEN /\ Len(tasks) < MaxTasks
       /\ tasks' = Append(tasks, Task("html", d.url.str, NoFile, "fetch", ReOf(d)))
       /\ UNCHANGED toHost
  ELSE IF b = "pdf" /\ PdfSyncError(d.file) = Null
  THEN /\ Len(tasks) < MaxTasks
       /\ tasks' = Append(tasks, Task("pdf", << >>, d.file, "read", ReOf(d)))
       /\ UNCHANGED toHost
  ELSE IF b = "pdf"
  THEN /\ Len(toHost) < MaxQueue
       /\ toHost' = Append(toHost,
                       PdfFailureMsg(d.file, PdfSyncError(d.file), ReOf(d)))
       /\ UNCHANGED tasks
  ELSE UNCHANGED <<toHost, tasks>>

\* The message listener answering an unrecognised operation and then
\* going on to fetch as well (a missing else).
Listener_answersAndRuns(d) ==
  LET b == ListenerBranch(d) IN
  IF b = "html"
  THEN /\ Len(tasks) < MaxTasks
       /\ tasks' = Append(tasks, Task("html", d.url.str, NoFile, "fetch", ReOf(d)))
       /\ UNCHANGED toHost
  ELSE IF b = "pdf" /\ PdfSyncError(d.file) = Null
  THEN /\ Len(tasks) < MaxTasks
       /\ tasks' = Append(tasks, Task("pdf", << >>, d.file, "read", ReOf(d)))
       /\ UNCHANGED toHost
  ELSE /\ Len(toHost) < MaxQueue
       /\ Len(tasks) < MaxTasks
       /\ toHost' = Append(toHost,
                       IF b = "pdf"
                       THEN PdfFailureMsg(d.file, PdfSyncError(d.file), ReOf(d))
                       ELSE InvalidOperationMsg(d))
       /\ tasks' = Append(tasks, Task("html", << >>, NoFile, "fetch", ReOf(d)))

\* The message listener on event data d, up to its first await: the URL
\* operation suspends at fetch(url); the PDF operation fails on the MIME
\* type or suspends at file.arrayBuffer(); anything else is answered at once.
Listener(d) ==
  LET b == ListenerBranch(d) IN
  IF b = "html"
  THEN /\ Len(tasks) < MaxTasks
       /\ tasks' = Append(tasks, Task("html", d.url.str, NoFile, "fetch", ReOf(d)))
       /\ UNCHANGED toHost
  ELSE IF b = "pdf" /\ PdfSyncError(d.file) = Null
  THEN /\ Len(tasks) < MaxTasks
       /\ tasks' = Append(tasks, Task("pdf", << >>, d.file, "read", ReOf(d)))
       /\ UNCHANGED toHost
  ELSE /\ Len(toHost) < MaxQueue
       /\ toHost' = Append(toHost,
                       IF b = "pdf"
                       THEN PdfFailureMsg(d.file, PdfSyncError(d.file), ReOf(d))
                       ELSE InvalidOperationMsg(d))
       /\ UNCHANGED tasks

\* The unit receives the next message the Dispatcher posted.
WorkerOnMessage ==
  /\ worker = "live"
  /\ toWorker # << >>
  /\ toWorker' = Tail(toWorker)
  /\ Listener(Head(toWorker))
  /\ lastOp' = WorkerStep("worker.message", Head(toWorker))
  /\ UNCHANGED <<worker, isWorkerReady, callbacks, pdfReads, faultEvents>>

\* The unit's message listener runs on event data d.
WorkerOnMessageData(d) ==
  /\ worker = "live"
  /\ Listener(d)
  /\ lastOp' = WorkerStep("worker.message", d)
  /\ UNCHANGED <<worker, isWorkerReady, callbacks, toWorker, pdfReads,
                 faultEvents>>

RemoveAt(seq, i) == SubSeq(seq, 1, i - 1) \o SubSeq(seq, i + 1, Len(seq))

\* handleHtmlFetch resumes from await fetch(url): the fetch rejected, or
\* the response is not ok (both caught, one failure result), or it goes on
\* to await response.text().
FetchSettles(i, outcome) ==
  LET t == tasks[i] IN
  /\ worker = "live"
  /\ t.stage = "fetch"
  /\ IF outcome.settled = "rejected"
     THEN /\ Len(toHost) < MaxQueue
          /\ toHost' = Append(toHost, HtmlFailureMsg(t.url, << "Failed to fetch" >>, t.re))
          /\ tasks' = RemoveAt(tasks, i)
     ELSE IF ~ResponseOk(outcome)
     THEN /\ Len(toHost) < MaxQueue
          /\ toHost' = Append(toHost,
                          HtmlFailureMsg(t.url,
                            << "HTTP ", outcome.status, ": ", outcome.statusText >>,
                            t.re))
          /\ tasks' = RemoveAt(tasks, i)
     ELSE /\ tasks' = [tasks EXCEPT ![i].stage = "text"]
          /\ UNCHANGED toHost
  /\ lastOp' = WorkerStep("worker.settle", Settled(t, outcome))
  /\ UNCHANGED <<worker, isWorkerReady, callbacks, toWorker, pdfReads,
                 faultEvents>>

\* handleHtmlFetch resumes from await response.text(): the body is parsed
\* and the extract posted, or the read rejected and a failure is posted.
TextSettles(i, outcome) ==
  LET t == tasks[i] IN
  /\ worker = "live"
  /\ t.stage = "text"
  /\ Len(toHost) < MaxQueue
  /\ toHost' = Append(toHost,
                  IF outcome.settled = "rejected"
                  THEN HtmlFailureMsg(t.url, << "body read failed" >>, t.re)
                  ELSE IF ~outcome.domParser
                  THEN HtmlFailureMsg(t.url, << "DOMParser is not defined" >>, t.re)
                  ELSE HtmlSuccessMsg(t.url, outcome.doc, t.re))
  /\ tasks' = RemoveAt(tasks, i)
  /\ lastOp' = WorkerStep("worker.settle", Settled(t, outcome))
  /\ UNCHANGED <<worker, isWorkerReady, callbacks, toWorker, pdfReads,
                 faultEvents>>

\* handlePdfParse resumes from await file.arrayBuffer(): the signature is
\* checked and one result posted.
PdfReadSettles(i, ok) ==
  LET t == tasks[i] IN
  /\ worker = "live"
  /\ t.stage = "read"
  /\ Len(toHost) < MaxQueue
  /\ toHost' = Append(toHost,
                  IF ~ok THEN PdfFailureMsg(t.file, "read failed", t.re)
                  ELSE IF ~HasPdfSignature(t.file.bytes)
                  THEN PdfFailureMsg(t.file, "Invalid PDF file format", t.re)
                  ELSE PdfSuccessMsg(t.file, t.re))
  /\ tasks' = RemoveAt(tasks, i)
  /\ lastOp' = WorkerStep("worker.settle", Settled(t, ok))
  /\ UNCHANGED <<worker, isWorkerReady, callbacks, toWorker, pdfReads,
                 faultEvents>>

\* The unit's error listener posting nothing.
WorkerErrorListener_silent ==
  /\ worker = "live"
  /\ Len(toHost) < MaxQueue
  /\ faultEvents < MaxFaults
  /\ faultEvents' = faultEvents + 1
  /\ lastOp' = WorkerStep("worker.error", Undefined)
  /\ UNCHANGED <<worker, isWorkerReady, callbacks, toWorker, toHost, tasks,
                 pdfReads>>

\* The unit's error listener: an uncaught fault is posted as a failure
\* result; the event is not cancelled, so it also reaches worker.onerror.
WorkerErrorListener ==
  /\ worker = "live"
  /\ Len(toHost) < MaxQueue
  /\ faultEvents < MaxFaults
  /\ toHost' = Append(toHost,
                  HMsg(Undefined, Undefined, "error", FALSE, "Worker error",
                       Undefined, "fault"))
  /\ faultEvents' = faultEvents + 1
  /\ lastOp' = WorkerStep("worker.error", Undefined)
  /\ UNCHANGED <<worker, isWorkerReady, callbacks, toWorker, tasks, pdfReads>>

\* The unit's unhandledrejection listener: posted as a failure result and
\* cancelled (preventDefault).
WorkerRejectionListener ==
  /\ worker = "live"
  /\ Len(toHost) < MaxQueue
  /\ toHost' = Append(toHost,
                  HMsg(Undefined, Undefined, "error", FALSE,
                       "Unhandled promise rejection", Undefined, "rejection"))
  /\ lastOp' = WorkerStep("worker.unhandledrejection", Undefined)
  /\ UNCHANGED <<worker, isWorkerReady, callbacks, toWorker, tasks, pdfReads,
                 faultEvents>>

----------------------------------------------------------------------------
(* Specification *)

\* Arguments of setCallbacks: each channel is given a function or left out.
CallbackArgs ==
  [CallbackNames -> {"f1", Undefined}]
    \cup { [onProgress |-> Undefined, onComplete |-> Undefined, onError |-> "f2"] }

FetchOutcomes == Responses \cup {FetchRejected}

\* A small page: a title, an article and a body, two links of which one
\* has no text, one heading.
SampleDoc ==
  Document("T", Undefined,
           ("article" :> << Run(" ", 2), Run("a", 3) >>)
             @@ ("body" :> << Run("b", 1) >>),
           << Anchor(<< Run("a", 1) >>, << "u", 1 >>),
              Anchor(<< Run(" ", 1) >>, << "u", 2 >>) >>,
           << Heading("h1", << Run("a", 1) >>) >>)

TextOutcomes == { TextRejected, NoDOMParser, Parsed(SampleDoc) }

Next ==
  \/ OnMessage
  \/ \E d \in HostInputs : OnMessageData(d)
  \/ OnError
  \/ \E arg \in CallbackArgs : setCallbacks(arg)
  \/ getStatus
  \/ \E a \in UrlArgs : ingestURL(a)
  \/ \E f \in FileArgs : ingestPDF(f)
  \/ \E i \in DOMAIN pdfReads, ok \in BOOLEAN : ingestPDFResume(i, ok)
  \/ destroy
  \/ WorkerOnMessage
  \/ \E d \in WorkerInputs : WorkerOnMessageData(d)
  \/ \E i \in DOMAIN tasks, o \in FetchOutcomes : FetchSettles(i, o)
  \/ \E i \in DOMAIN tasks, o \in TextOutcomes : TextSettles(i, o)
  \/ \E i \in DOMAIN tasks, ok \in BOOLEAN : PdfReadSettles(i, ok)
  \/ WorkerErrorListener
  \/ WorkerRejectionListener

Spec == Init /\ [][Next]_vars

\* The PDF operation on its own: the unit is handed, one at a time, files
\* and blobs of either declared type with every byte content up to
\* MaxBytes bytes, and the Dispatcher consumes what the unit posts.
MaxBytes == 5
ByteAlphabet == {"%", "P", "D", "F"}
ByteStrings == UNION { [1..k -> ByteAlphabet] : k \in 0..MaxBytes }

PdfFiles ==
  { File("a.pdf", t, b) : t \in {PDFMime, "text/plain"}, b \in ByteStrings }
    \cup { Blob(PDFMime, b) : b \in ByteStrings }

\* The unit is idle: no operation is suspended and nothing it posted is
\* waiting for the Dispatcher.
Idle == tasks = << >> /\ toHost = << >>

NextPdf ==
  \/ \E f \in PdfFiles : Idle /\ WorkerOnMessageData(Direct("pdf", NoUrl, f))
  \/ \E i \in DOMAIN tasks, ok \in BOOLEAN : PdfReadSettles(i, ok)
  \/ OnMessage

SpecPdf == Init /\ [][NextPdf]_vars

\* The URL operation on its own: the unit is handed one url at a time,
\* the fetch settles with a response of any of these statuses or rejects,
\* and the Dispatcher consumes what the unit posts.
HtmlUrls == { U_http, U_word }

\* Sample texts have up to MaxBody characters, sample documents up to
\* MaxAnchors a[href] elements and MaxHeadings heading elements.
MaxBody     == 10001
MaxAnchors  == 70
MaxHeadings == 30

\* Texts of content elements: empty, only whitespace, short with
\* whitespace to collapse and trim, and long ones around BodyLimit.
BodyTexts ==
  { << >>,
    << Run("\n", 2) >>,
    << Run(" ", 2), Run("a", 2), Run("\n", 1), Run("\t", 3), Run("b", 1), Run(" ", 1) >>,
    << Run("a", BodyLimit - 1) >>,
    << Run("a", BodyLimit) >>,
    << Run("a", MaxBody) >>,
    << Run("\t", 1), Run("a", BodyLimit - 1), Run(" ", 5), Run("b", 10) >>,
    << Run("a", BodyLimit - 2), Run(" ", 1), Run("\n", 1), Run("b", 1), Run(" ", 3) >> }

\* Which content selectors find an element: body always does.
Layouts(text) ==
  { "body" :> text,
    ("main" :> text) @@ ("body" :> << Run("x", MaxBody) >>),
    (".content" :> text) @@ ("#content" :> << Run("y", 1) >>)
       @@ ("body" :> << Run("x", 1) >>) }

\* n a[href] elements, the i-th with text "a" * i inside whitespace; when
\* gap > 0 every gap-th one is empty, by its text or by its href in turn.
AnchorsOf(n, gap) ==
  [i \in 1..n |->
     IF gap > 0 /\ i % gap = 0
     THEN IF (i \div gap) % 2 = 0
          THEN Anchor(<< Run(" ", 2) >>, << "u", i >>)
          ELSE Anchor(<< Run("a", i) >>, << >>)
     ELSE Anchor(<< Run(" ", 1), Run("a", i), Run("\n", 1) >>, << "u", i >>)]

AnchorLists ==
  { AnchorsOf(0, 0), AnchorsOf(3, 2), AnchorsOf(LinkLimit, 0),
    AnchorsOf(LinkLimit + 1, 0), AnchorsOf(60, 0), AnchorsOf(MaxAnchors, 7) }

\* n heading elements, the i-th with text "h" * i; when gap > 0 every
\* gap-th one has only whitespace as its text.
HeadingsFor(n, gap) ==
  [i \in 1..n |->
     IF gap > 0 /\ i % gap = 0
     THEN Heading("h2", << Run("\t", 1) >>)
     ELSE Heading(IF i % 2 = 0 THEN "h1" ELSE "h3",
                  << Run("h", i), Run(" ", 1) >>)]

HeadingLists ==
  { HeadingsFor(0, 0), HeadingsFor(3, 2), HeadingsFor(HeadingLimit, 0),
    HeadingsFor(HeadingLimit + 1, 0), HeadingsFor(25, 0),
    HeadingsFor(MaxHeadings, 6) }

Documents ==
  { Document(t, Undefined, r, a, h) :
      t \in {"T", Undefined},
      r \in UNION { Layouts(b) : b \in BodyTexts },
      a \in AnchorLists, h \in HeadingLists }

HtmlTextOutcomes == { TextRejected, NoDOMParser } \cup { Parsed(d) : d \in Documents }

HtmlResponses ==
  { Response(0, ""), Response(200, "OK"), Response(204, "No Content"),
    Response(299, ""), Response(300, "Multiple Choices"),
    Response(404, "Not Found"), Response(500, "Internal Server Error") }

NextHtml ==
  \/ \E u \in HtmlUrls : Idle /\ WorkerOnMessageData(Direct("html", Str(u), NoFile))
  \/ \E i \in DOMAIN tasks, o \in HtmlResponses \cup {FetchRejected} :
       FetchSettles(i, o)
  \/ \E i \in DOMAIN tasks, o \in HtmlTextOutcomes : TextSettles(i, o)
  \/ OnMessage

SpecHtml == Init /\ [][NextHtml]_vars

\* The message listener on its own: the unit reads what the Dispatcher
\* posted and is handed, one at a time, event data with every combination
\* of these operation, url, file and type fields; the operations it starts
\* run to their end and the Dispatcher consumes what the unit posts.
ListenerInputs ==
  { WMsg(t, Undefined, o, u, f) :
      t \in {Undefined, "init", "ingest_url"},
      o \in {"html", "pdf", "txt", "", Null, Undefined},
      u \in {Str(U_http), Str(U_empty), NoUrl, NonStr("null")},
      f \in {F_pdf, NoFile, NotAFile("null")} }

NextListener ==
  \/ WorkerOnMessage
  \/ \E d \in ListenerInputs : Idle /\ WorkerOnMessageData(d)
  \/ \E i \in DOMAIN tasks, o \in FetchOutcomes : FetchSettles(i, o)
  \/ \E i \in DOMAIN tasks, o \in TextOutcomes : TextSettles(i, o)
  \/ \E i \in DOMAIN tasks, ok \in BOOLEAN : PdfReadSettles(i, ok)
  \/ OnMessage

SpecListener == Init /\ [][NextListener]_vars

----------------------------------------------------------------------------
(* Properties *)

Submissions == {"ingestURL", "ingestPDF"}

\* The sample arguments that are well-formed absolute URL strings.
WellFormedUrlArgs == { Str(U_http) }

\* C1: in a state where isWorkerReady is false, every ingestURL and
\* ingestPDF call, whatever its argument, throws the not-ready error,
\* posts nothing to the unit and starts no file read.
C1_NotReadyAlwaysFails ==
  [][ (lastOp'.name \in Submissions /\ ~isWorkerReady)
        => /\ lastOp'.result = ErrNotReady
           /\ toWorker' = toWorker
           /\ pdfReads' = pdfReads ]_vars

\* C1 witness: a well-formed URL was submitted to a live unit before
\* readiness and was refused with the not-ready error.
C1_Witness ==
  /\ lastOp.name = "ingestURL"
  /\ lastOp.arg \in WellFormedUrlArgs
  /\ worker = "live"
  /\ ~isWorkerReady
  /\ lastOp.result = ErrNotReady

\* C2 (as claimed): whatever the unit has posted in answer to the init
\* probe is a worker_ready message.
C2_ProbeAcknowledged ==
  \A i \in DOMAIN toHost :
    toHost[i].re = "init" => toHost[i].type = "worker_ready"

Forwarded == {"ingest_url", "ingest_pdf"}

C5_OneResultPerTask ==
  [][ /\ lastOp'.name = "worker.message"
        => \/ /\ Len(tasks') = Len(tasks) + 1
              /\ toHost' = toHost
           \/ /\ tasks' = tasks
              /\ Len(toHost') = Len(toHost) + 1
              /\ toHost'[Len(toHost')].success = FALSE
      /\ lastOp'.name = "worker.settle"
        => \/ /\ Len(tasks') = Len(tasks) - 1
              /\ Len(toHost') = Len(toHost) + 1
              /\ toHost'[Len(toHost')].success \in BOOLEAN
              /\ toHost'[Len(toHost')].operation \in {"html", "pdf"}
           \/ /\ Len(tasks') = Len(tasks)
              /\ toHost' = toHost
      /\ lastOp'.name \notin {"worker.message", "worker.settle", "destroy"}
        => tasks' = tasks ]_vars

\* C5 witness: a URL operation has run to its end and its success result is
\* posted, with no operation left running.
C5_Witness ==
  /\ lastOp.name = "worker.settle"
  /\ tasks = << >>
  /\ toHost # << >>
  /\ toHost[Len(toHost)].operation = "html"
  /\ toHost[Len(toHost)].success = TRUE

\* C6: isWorkerReady is false after construction, becomes true only in a
\* step that handles a worker_ready message of the unit, is false after
\* destroy, and is never true without a live unit.
C6_ReadyOnlyByAck ==
  /\ [](lastOp.name = "constructor" => ~isWorkerReady)
  /\ [](isWorkerReady => worker = "live")
  /\ [][ /\ (isWorkerReady' /\ ~isWorkerReady)
             => /\ lastOp'.name = "handleWorkerMessage"
                /\ lastOp'.arg.type = "worker_ready"
         /\ lastOp'.name = "destroy" => ~isWorkerReady' ]_vars

\* C6 witness: readiness was set by handling worker_ready.
C6_Witness ==
  /\ isWorkerReady
  /\ lastOp.name = "handleWorkerMessage"
  /\ lastOp.arg.type = "worker_ready"

\* What ingestURL(a) does when it accepts / when it refuses with one of
\* the invalid-input errors.
UrlAccepted(a) ==
  /\ lastOp'.result = "processing"
  /\ toWorker' = Append(toWorker, IngestUrlMsg(a.str))

UrlRefused ==
  /\ lastOp'.result \in {ErrInvalidUrl, ErrUrlFormat}
  /\ toWorker' = toWorker

\* C7 (as claimed): ingestURL accepts every well-formed absolute URL string,
\* posting exactly one ingest_url message carrying it and returning
\* "processing", and refuses every other argument with an invalid-input
\* error, posting nothing.
C7_UrlValidation_AnyState ==
  [][ lastOp'.name = "ingestURL"
        => IF lastOp'.arg \in WellFormedUrlArgs
           THEN UrlAccepted(lastOp'.arg)
           ELSE UrlRefused ]_vars

\* C7 (amended): the same, for calls made while isWorkerReady is true; in
\* no state does a refused call post a message.
C7_UrlValidation_WhenReady ==
  [][ lastOp'.name = "ingestURL"
        => /\ isWorkerReady
             => IF lastOp'.arg \in WellFormedUrlArgs
                THEN UrlAccepted(lastOp'.arg)
                ELSE UrlRefused
           /\ lastOp'.result # "processing" => toWorker' = toWorker ]_vars

\* C7 witness: a well-formed URL was accepted and its message is the last
\* one posted to the unit.
C7_Witness ==
  /\ lastOp.name = "ingestURL"
  /\ lastOp.result = "processing"
  /\ toWorker # << >>
  /\ toWorker[Len(toWorker)] = IngestUrlMsg(U_http)

NotAPdfFile(f) == f.kind # "File" \/ f.type # PDFMime

\* C8 (as claimed): ingestPDF of anything that is not a File, or of a File
\* whose declared type is not application/pdf, throws an invalid-input
\* error, starts no read of the file and posts nothing.
C8_PdfValidation_AnyState ==
  [][ (lastOp'.name = "ingestPDF" /\ NotAPdfFile(lastOp'.arg))
        => /\ lastOp'.result \in {ErrInvalidFile, ErrNotPdf}
           /\ pdfReads' = pdfReads
           /\ toWorker' = toWorker ]_vars

\* C8 (amended): such a call always fails without starting a read and
\* without posting; the error is invalid-input when isWorkerReady is true
\* and not-ready when it is false.
C8_PdfValidation_WhenReady ==
  [][ (lastOp'.name = "ingestPDF" /\ NotAPdfFile(lastOp'.arg))
        => /\ isWorkerReady
             => lastOp'.result = IF lastOp'.arg.kind # "File"
                                 THEN ErrInvalidFile ELSE ErrNotPdf
           /\ ~isWorkerReady => lastOp'.result = ErrNotReady
           /\ pdfReads' = pdfReads
           /\ toWorker' = toWorker ]_vars

\* C8 witness: a File declared text/plain (with PDF bytes) was refused
\* while the Dispatcher was ready, and no read is pending.
C8_Witness ==
  /\ lastOp.name = "ingestPDF"
  /\ lastOp.arg = F_txt
  /\ isWorkerReady
  /\ lastOp.result = ErrNotPdf
  /\ pdfReads = << >>

\* C9 (as claimed): a construction failure has invoked onError with the
\* tag worker_init_error.
C9_ConstructionFailureSurfaced ==
  (lastOp.name = "constructor" /\ lastOp.result = "construction_failed")
    => /\ Len(lastOp.invoked) = 1
       /\ lastOp.invoked[1].channel = "onError"
       /\ lastOp.invoked[1].data.type = "worker_init_error"

\* C10: destroy, in any state, leaves no unit, isWorkerReady false and the
\* three callback slots empty; from then on there is never a unit again,
\* every ingestURL and ingestPDF call throws not-ready and posts nothing,
\* and no step invokes a callback.
C10_DestroyIsFinal ==
  /\ [][ lastOp'.name = "destroy"
           => /\ worker' = Null
              /\ ~isWorkerReady'
              /\ callbacks' = NoCallbacks
              /\ toWorker' = << >> ]_vars
  /\ [][ worker = Null
           => /\ worker' = Null
              /\ ~isWorkerReady'
              /\ lastOp'.invoked = << >>
              /\ toWorker' = toWorker
              /\ lastOp'.name \in Submissions => lastOp'.result = ErrNotReady ]_vars

\* C10 witness: the unit was destroyed while an ingestPDF call was
\* suspended in its read, callbacks were registered again, and a later
\* submission of a well-formed URL was refused with not-ready.
C10_Witness ==
  /\ worker = Null
  /\ pdfReads # << >>
  /\ callbacks["onError"] # Null
  /\ lastOp.name = "ingestURL"
  /\ lastOp.arg \in WellFormedUrlArgs
  /\ lastOp.result = ErrNotReady

\* The tasks in flight: forwarded by the Dispatcher (posted as ingest_url or
\* ingest_pdf) and not yet answered by a result that the Dispatcher has
\* handled.  Such a task is a message on its way to the unit, an operation
\* running in the unit, or a result on its way back.
CountForwarded(seq) == Cardinality({ i \in DOMAIN seq : seq[i].re \in Forwarded })

InFlight ==
  Cardinality({ i \in DOMAIN toWorker : toWorker[i].type \in Forwarded })
    + CountForwarded(tasks) + CountForwarded(toHost)

Accepted(op) ==
  op.name \in {"ingestURL", "ingestPDF.resume"} /\ op.result = "processing"

C12_SetCallbacksFrame ==
  [][ lastOp'.name = "setCallbacks"
        => /\ \A n \in CallbackNames :
                IF lastOp'.arg[n] \in Functions
                THEN callbacks'[n] = lastOp'.arg[n]
                ELSE callbacks'[n] = callbacks[n]
           /\ UNCHANGED <<isWorkerReady, worker, toWorker, toHost, tasks,
                          pdfReads, faultEvents>>
           /\ lastOp'.invoked = << >> ]_vars

\* C12 witness: onError was given f2 alone; onComplete still holds the f1
\* registered earlier and onProgress is still empty.
C12_Witness ==
  /\ lastOp.name = "setCallbacks"
  /\ lastOp.arg = [onProgress |-> Undefined, onComplete |-> Undefined, onError |-> "f2"]
  /\ callbacks = [onProgress |-> Null, onComplete |-> "f1", onError |-> "f2"]

\* C13: getStatus changes no state of the Dispatcher or of the unit and
\* posts nothing; what it returns is the current isWorkerReady and, for
\* each of the three channels, whether its slot is populated; a call that
\* directly follows another call returns the same structure.
C13_GetStatusPureRead ==
  [][ lastOp'.name = "getStatus"
        => /\ UNCHANGED <<worker, isWorkerReady, callbacks, toWorker, toHost,
                          tasks, pdfReads, faultEvents>>
           /\ lastOp'.invoked = << >>
           /\ lastOp'.result.workerReady = isWorkerReady
           /\ DOMAIN lastOp'.result.hasCallbacks = CallbackNames
           /\ \A n \in CallbackNames :
                lastOp'.result.hasCallbacks[n] = (callbacks[n] \in Functions)
           /\ lastOp.name = "getStatus" => lastOp'.result = lastOp.result ]_vars

\* C13 witness: getStatus reported a ready Dispatcher with onComplete
\* populated and the other two channels empty.
C13_Witness ==
  /\ lastOp.name = "getStatus"
  /\ isWorkerReady
  /\ callbacks = [onProgress |-> Null, onComplete |-> "f1", onError |-> Null]
  /\ lastOp.result.workerReady
  /\ lastOp.result.hasCallbacks["onComplete"]
  /\ ~lastOp.result.hasCallbacks["onError"]

\* The result a step of the unit posted: the last message of the queue
\* to the host after the step.
Posted(after) == after[Len(after)]

\* The file a step of the PDF operation was about.
PdfFileOf(op) ==
  IF op.name = "worker.message" THEN op.arg.file ELSE op.arg.task.file

\* A step that ended a PDF operation: the listener failing it before its
\* await, or its read having completed.
PdfResultStep(op) ==
  \/ op.name = "worker.message" /\ ListenerBranch(op.arg) = "pdf"
       /\ PdfSyncError(op.arg.file) # Null
  \/ op.name = "worker.settle" /\ op.arg.task.op = "pdf" /\ op.arg.outcome

C14_ForFilesWithTimeValue ==
  [][ (PdfResultStep(lastOp') /\ PdfFileOf(lastOp').lastModified = "time")
        => LET f == PdfFileOf(lastOp')
               m == Posted(toHost') IN
           /\ Len(toHost') = Len(toHost) + 1
           /\ m.operation = "pdf"
           /\ m.success <=> (f.type = PDFMime /\ Len(f.bytes) >= 4
                               /\ SubSeq(f.bytes, 1, 4) = <<"%","P","D","F">>)
           /\ ~m.success => m.error # Undefined /\ m.data = Undefined ]_vars

\* A step in which the fetch of a URL operation settled with a response.
FetchResponded(op) ==
  /\ op.name = "worker.settle"
  /\ op.arg.task.stage = "fetch"
  /\ op.arg.outcome.settled = "fulfilled"

\* C15: when the fetch of a URL operation settles with a response whose
\* status is outside 200..299, the operation ends there: it posts exactly
\* one result, a failure with operation 'html' whose message ends with
\* 'HTTP <status>: <statusText>', with no data; the body is not read.
C15_NonOkResponseFails ==
  [][ (FetchResponded(lastOp')
         /\ (lastOp'.arg.outcome.status < 200 \/ lastOp'.arg.outcome.status > 299))
        => LET r == lastOp'.arg.outcome
               m == Posted(toHost') IN
           /\ Len(toHost') = Len(toHost) + 1
           /\ m.operation = "html"
           /\ m.success = FALSE
           /\ Len(m.error) >= 4
           /\ SubSeq(m.error, Len(m.error) - 3, Len(m.error))
                = << "HTTP ", r.status, ": ", r.statusText >>
           /\ m.data = Undefined
           /\ Len(tasks') = Len(tasks) - 1
           /\ \A i \in DOMAIN tasks' : tasks'[i].stage # "text" ]_vars

\* C15 witness: a fetch answered 404 Not Found and the failure was posted.
C15_Witness ==
  /\ FetchResponded(lastOp)
  /\ lastOp.arg.outcome.status = 404
  /\ toHost # << >>
  /\ Posted(toHost).success = FALSE
  /\ Posted(toHost).operation = "html"

\* A step in which a URL operation parsed its document and posted the
\* extract.
Extracted(op) ==
  /\ op.name = "worker.settle"
  /\ op.arg.task.stage = "text"
  /\ op.arg.outcome.settled = "fulfilled"
  /\ op.arg.outcome.domParser

\* p is the text made of the first characters of t.
IsPrefixText(p, t) ==
  \/ p = << >>
  \/ /\ Len(p) <= Len(t)
     /\ \A i \in 1..(Len(p) - 1) : p[i] = t[i]
     /\ p[Len(p)].c = t[Len(p)].c
     /\ p[Len(p)].n <= t[Len(p)].n

NonSpace(r) == r.c \notin {" ", "\n", "\t"}

\* t is raw with every stretch of whitespace made one space and none left
\* at either end.
IsCollapsedTrimmed(t, raw) ==
  /\ \A i \in DOMAIN t : NonSpace(t[i]) \/ t[i] = [c |-> " ", n |-> 1]
  /\ \A i \in 1..(Len(t) - 1) : NonSpace(t[i]) \/ NonSpace(t[i + 1])
  /\ t # << >> => NonSpace(t[1]) /\ NonSpace(t[Len(t)])
  /\ SelectSeq(t, NonSpace) = SelectSeq(raw, NonSpace)
  /\ \A i \in 1..(Len(t) - 1) :
        (NonSpace(t[i]) /\ NonSpace(t[i + 1])) => t[i].c # t[i + 1].c

\* C16: the extract a URL operation posts carries, as bodyText, the first
\* min(L, 10000) characters of the whitespace-collapsed and trimmed text
\* of the content element, L being the length of that text, and carries L
\* as contentLength; a text longer than 10000 characters is transported as
\* exactly 10000 characters.
C16_BodyTextCutAt10000 ==
  [][ Extracted(lastOp')
        => LET doc  == lastOp'.arg.outcome.doc
               m    == Posted(toHost')
               body == BodyTextOf(doc)
               L    == TextLength(body) IN
           /\ Len(toHost') = Len(toHost) + 1
           /\ m.success /\ m.operation = "html"
           /\ IsCollapsedTrimmed(body, FirstRegion(doc, 1))
           /\ IsPrefixText(m.data.bodyText, body)
           /\ TextLength(m.data.bodyText) = (IF L < 10000 THEN L ELSE 10000)
           /\ m.data.contentLength = L
           /\ L > 10000 => TextLength(m.data.bodyText) = 10000 ]_vars

\* C16 witness: a text of 10010 characters was transported as its first
\* 10000, the last of them the space a stretch of whitespace collapsed to.
C16_Witness ==
  /\ Extracted(lastOp)
  /\ toHost # << >>
  /\ Posted(toHost).success = TRUE
  /\ Posted(toHost).data.contentLength = 10010
  /\ Posted(toHost).data.bodyText = << [c |-> "a", n |-> 9999], [c |-> " ", n |-> 1] >>

\* A text with a character that is not whitespace.
HasVisibleText(raw) == \E i \in DOMAIN raw : NonSpace(raw[i])

\* The positions, in document order, of the a[href] elements with text
\* and a target, and of the heading elements with text.
KeptAnchors(doc) ==
  { i \in DOMAIN doc.anchors :
      HasVisibleText(doc.anchors[i].text) /\ doc.anchors[i].href # << >> }
KeptHeadings(doc) ==
  { i \in DOMAIN doc.headings : HasVisibleText(doc.headings[i].text) }

\* The place of position i among a set of positions, counted from 1 in
\* increasing order.
Rank(positions, i) == Cardinality({ k \in positions : k <= i })

Least(a, b) == IF a < b THEN a ELSE b

\* C17: the extract a URL operation posts carries as links the first 50
\* (or all, if fewer) of the anchors that have text and a target, and as
\* headings the first 20 (or all, if fewer) of the headings that have
\* text, each list in document order: the j-th such element is the j-th
\* entry, so an empty element takes no place in the list.
C17_ListsFilteredThenCut ==
  [][ Extracted(lastOp')
        => LET doc == lastOp'.arg.outcome.doc
               d   == Posted(toHost').data
               ka  == KeptAnchors(doc)
               kh  == KeptHeadings(doc) IN
           /\ Len(d.links) = Least(Cardinality(ka), 50)
           /\ \A i \in ka :
                LET a == doc.anchors[i]
                    j == Rank(ka, i) IN
                j <= 50 => d.links[j] = [text |-> Trim(a.text), href |-> a.href]
           /\ Len(d.headings) = Least(Cardinality(kh), 20)
           /\ \A i \in kh :
                LET h == doc.headings[i]
                    j == Rank(kh, i) IN
                j <= 20 => d.headings[j] = [level |-> h.level, text |-> Trim(h.text)] ]_vars

\* C17 witness: of 70 anchors, 60 of them with text and target, and 30
\* headings, 25 of them with text, exactly 50 links and 20 headings were
\* posted, the last link being the 58th anchor (8 empty ones before it).
C17_Witness ==
  /\ Extracted(lastOp)
  /\ toHost # << >>
  /\ Len(lastOp.arg.outcome.doc.anchors) = 70
  /\ Cardinality(KeptAnchors(lastOp.arg.outcome.doc)) = 60
  /\ Len(lastOp.arg.outcome.doc.headings) = 30
  /\ Cardinality(KeptHeadings(lastOp.arg.outcome.doc)) = 25
  /\ Len(Posted(toHost).data.links) = 50
  /\ Posted(toHost).data.links[50].href = << "u", 58 >>
  /\ Len(Posted(toHost).data.headings) = 20

FaultSteps == {"worker.error", "worker.unhandledrejection"}

\* C18: a step of the unit's error or unhandledrejection listener posts
\* exactly one result, a failure with operation 'error', and leaves the
\* unit as it was: live, with its suspended operations and its unread
\* messages; and a message the unit is given while such a fault is still
\* undispatched, or right after one, is handled as any other: it starts
\* one operation or is answered by one result.
C18_FaultsReemitted ==
  [][ /\ lastOp'.name \in FaultSteps
        => /\ Len(toHost') = Len(toHost) + 1
           /\ SubSeq(toHost', 1, Len(toHost)) = toHost
           /\ Posted(toHost').success = FALSE
           /\ Posted(toHost').operation = "error"
           /\ Posted(toHost').error # Undefined
           /\ worker' = "live"
           /\ UNCHANGED <<tasks, toWorker, isWorkerReady, callbacks>>
      /\ (lastOp'.name = "worker.message"
           /\ (faultEvents > 0 \/ lastOp.name \in FaultSteps))
        => /\ worker' = "live"
           /\ Len(tasks') + Len(toHost') = Len(tasks) + Len(toHost) + 1 ]_vars

\* C18 witness: with an uncaught fault of the unit re-emitted and its
\* error event still undispatched, the unit was given a URL task and
\* started its fetch.
C18_Witness ==
  /\ faultEvents > 0
  /\ lastOp.name = "worker.message"
  /\ lastOp.arg.operation = "html"
  /\ tasks # << >>
  /\ tasks[Len(tasks)].stage = "fetch"

\* C19: when ingestPDF resumes from its file read after destroy has run
\* (the worker field is null), it posts nothing and throws instead of
\* returning the 'processing' acknowledgment; and whenever it returns
\* 'processing' the unit was live and exactly one ingest_pdf message, for
\* the file that was read, was posted to it.
C19_NoAckWithoutPost ==
  [][ lastOp'.name = "ingestPDF.resume"
        => /\ worker = Null
                => /\ lastOp'.result # "processing"
                   /\ lastOp'.result \in {ErrReadPdf, ErrReadPdfTypeError}
                   /\ toWorker' = toWorker
                   /\ toWorker' = << >>
           /\ lastOp'.result = "processing"
                => /\ worker = "live" /\ worker' = "live"
                   /\ Len(toWorker') = Len(toWorker) + 1
                   /\ SubSeq(toWorker', 1, Len(toWorker)) = toWorker
                   /\ toWorker'[Len(toWorker')].type = "ingest_pdf"
                   /\ toWorker'[Len(toWorker')].payload.fileName = lastOp'.arg.name
           /\ Len(pdfReads') = Len(pdfReads) - 1 ]_vars

\* C19 witness: destroy ran during the read, the read then succeeded, and
\* ingestPDF threw on posting to the null worker.
C19_Witness ==
  /\ lastOp.name = "ingestPDF.resume"
  /\ worker = Null
  /\ lastOp.result = ErrReadPdfTypeError
  /\ toWorker = << >>

\* A field of event data that is given: neither absent, nor null, nor the
\* empty string.
UrlGiven(d)  == d.url.typ \notin {"undefined", "null"}
                  /\ ~(d.url.typ = "string" /\ d.url.str = << >>)
FileGiven(d) == d.file.kind \notin {"undefined", "null"}
OperationGiven(d) == d.operation \notin {"undefined", "null", ""}

\* Event data that asks for neither operation.
AsksForNothing(d) ==
  /\ ~(d.operation = "html" /\ UrlGiven(d))
  /\ ~(d.operation = "pdf" /\ FileGiven(d))

\* C20: when the unit's message listener is given event data whose
\* operation is not 'html' with a url nor 'pdf' with a file, a data with
\* only a type field included, it posts exactly one result, which is
\* {success: false, error: 'Invalid operation or missing data', operation}
\* with the operation given or else 'unknown' and no data, and it starts
\* no fetch and no PDF validation.
C20_InvalidMessageAnswered ==
  [][ (lastOp'.name = "worker.message" /\ AsksForNothing(lastOp'.arg))
        => LET d == lastOp'.arg
               m == Posted(toHost') IN
           /\ Len(toHost') = Len(toHost) + 1
           /\ SubSeq(toHost', 1, Len(toHost)) = toHost
           /\ m.success = FALSE
           /\ m.error = "Invalid operation or missing data"
           /\ m.operation = (IF OperationGiven(d) THEN d.operation ELSE "unknown")
           /\ m.data = Undefined
           /\ tasks' = tasks ]_vars

\* C20 witness: the unit read the init probe, which has only a type
\* field, and answered it with the failure for operation 'unknown'.
C20_Witness ==
  /\ lastOp.name = "worker.message"
  /\ lastOp.arg.type = "init"
  /\ lastOp.arg.operation = Undefined
  /\ tasks = << >>
  /\ toHost # << >>
  /\ Posted(toHost).error = "Invalid operation or missing data"
  /\ Posted(toHost).operation = "unknown"

\* The message types handleWorkerMessage has a case for.
KnownTypes == {"worker_ready", "progress", "ingest_complete", "error"}

\* C21: when the Dispatcher handles a message of the unit whose type is
\* none of worker_ready, progress, ingest_complete and error, a message
\* without a type field included, it invokes no callback and leaves
\* isWorkerReady, the callback slots, the unit, what was posted to it and
\* the pending file reads as they were.
C21_UnknownTypeIgnored ==
  [][ (lastOp'.name = "handleWorkerMessage" /\ lastOp'.arg.type \notin KnownTypes)
        => /\ lastOp'.invoked = << >>
           /\ lastOp'.result = "returned"
           /\ UNCHANGED <<isWorkerReady, callbacks, worker, toWorker, tasks,
                          pdfReads, faultEvents>> ]_vars

\* C21 witness: with all three callbacks registered and the Dispatcher
\* ready, the unit's answer to the init probe, which has no type field,
\* was handled; nothing was invoked and the Dispatcher is still ready.
C21_Witness ==
  /\ lastOp.name = "handleWorkerMessage"
  /\ lastOp.arg.type = Undefined
  /\ lastOp.arg.re = "init"
  /\ lastOp.arg.success = FALSE
  /\ \A n \in CallbackNames : callbacks[n] \in Functions
  /\ isWorkerReady
  /\ lastOp.invoked = << >>

====
